---- MODULE Spec2Model ----
(***************************************************************************)
(* The Anatomical Stiffness Field Engine of the DigitalTwin dashboard:     *)
(*   - computePerVertexStiffness (hooks/useMeshCoordinates), the Gaussian  *)
(*     blending of the hotspot table into one stiffness value per vertex;  *)
(*   - the LoadedMesh / FallbackMesh components of backend-mesh.tsx, which *)
(*     keep the aVertexStiffness attribute of each geometry and answer the *)
(*     pointer queries;                                                    *)
(*   - the hover state of DigitalTwinViewer and the stiffness default of   *)
(*     SimulationPage.                                                     *)
(*                                                                         *)
(* Numbers are fixed point.  Lengths are in units of 1/PosScale, weights   *)
(* in units of 1/WScale, ratios and kPa values of the field in units of    *)
(* 1/FieldScale; the global stiffness is a whole number of kPa.  Products  *)
(* and sums are exact, Math.exp is a table at the resolution 1/WScale and  *)
(* the one division of the code rounds to the nearest 1/FieldScale.        *)
(***************************************************************************)
EXTENDS Integers, Sequences, FiniteSets, TLC

VARIABLES
    fnArgs,            \* arguments of the calls of the function under test
                       \* (computePerVertexStiffness, heatmapColor)
    fnLog,             \* one record per call made with fnArgs: what it returned,
                       \* and the scratch vector computePerVertexStiffness was
                       \* entered with
    _vtx,              \* the module-level scratch vector of useMeshCoordinates
    prediction,        \* SimulationPage: NULL, or <<stiffness of the prediction>>
    heatmapEnabled,    \* DigitalTwinViewer state
    hoveredStiffness,  \* DigitalTwinViewer state: NULL, or <<kPa>>
    meshUrl,           \* BackendMesh prop: NULL (capsule), or <<name of the GLB scene>>
    mounted,           \* the mesh component has rendered and run its effects
    geos,              \* the geometries of the meshes of the scene, in traversal order
    material,          \* NULL, or <<uniforms of the hologram material>>
    clock,             \* state.clock.elapsedTime, in frames
    allocs,            \* number of aVertexStiffness BufferAttributes created so far
    thrown,            \* NULL, or <<name of the exception that escaped an effect>>
    lastEvent          \* the event handled last (mount, prediction, toggle, frame,
                       \* move, leave, missed, unmount), with the ray hit of a move
                       \* and the lesion list of a prediction

fnVars == <<fnArgs, fnLog>>
uiVars == <<prediction, heatmapEnabled, hoveredStiffness, meshUrl, mounted, geos,
            material, clock, allocs, thrown, lastEvent>>
vars == <<fnArgs, fnLog, _vtx, prediction, heatmapEnabled,
          hoveredStiffness, meshUrl, mounted, geos, material, clock, allocs, thrown,
          lastEvent>>

NULL == <<>>
Some(v) == <<v>>

\* ---------------------------------------------------------------------------
\* Fixed-point scales
\* ---------------------------------------------------------------------------
PosScale == 20
WScale == 100000
FieldScale == 1000
ExpSteps == 8

Min(a, b) == IF a < b THEN a ELSE b
Max(a, b) == IF a > b THEN a ELSE b

\* ---------------------------------------------------------------------------
\* Math.exp(-(num / den)) for num >= 0, den > 0, in units of 1/WScale.  Entry
\* k+1 is exp(-k / ExpSteps); beyond the table the result underflows to 0, as
\* the double does beyond 745.
\* ---------------------------------------------------------------------------
ExpTable ==
    << 100000, 88250, 77880, 68729, 60653, 53526, 47237, 41686, 36788, 32465,
       28650, 25284, 22313, 19691, 17377, 15335, 13534, 11943, 10540, 9301,
       8208, 7244, 6393, 5642, 4979, 4394, 3877, 3422, 3020, 2665,
       2352, 2075, 1832, 1616, 1426, 1259, 1111, 980, 865, 764,
       674, 595, 525, 463, 409, 361, 318, 281, 248, 219,
       193, 170, 150, 133, 117, 103, 91, 80, 71, 63,
       55, 49, 43, 38, 34, 30, 26, 23, 20, 18,
       16, 14, 12, 11, 10, 8, 7, 7, 6, 5,
       5, 4, 4, 3, 3, 2, 2, 2, 2, 1,
       1, 1, 1, 1, 1, 1, 1, 1 >>

MathExpNeg_Growing(num, den) ==
    LET k == (2 * num * ExpSteps + den) \div (2 * den)
    IN  IF k < Len(ExpTable) THEN ExpTable[Len(ExpTable) - k] ELSE WScale

MathExpNeg(num, den) ==
    LET k == (2 * num * ExpSteps + den) \div (2 * den)
    IN  IF k < Len(ExpTable) THEN ExpTable[k + 1] ELSE 0

\* _vtx.distanceTo(hs.pos), squared: the code takes the root and squares it again.
distanceToSquared(v, p) ==
    (v[1] - p[1]) * (v[1] - p[1]) + (v[2] - p[2]) * (v[2] - p[2])
        + (v[3] - p[3]) * (v[3] - p[3])

\* w = Math.exp(-(dist * dist) / (2 * sigma * sigma)) for one hotspot.  With
\* sigma = 0 the quotient is -0/0 = NaN at distance 0 and -Infinity elsewhere.
HotspotWeight(vtx, hs) ==
    LET d2 == distanceToSquared(vtx, hs.pos)
        s2 == 2 * hs.radius * hs.radius
    IN  IF s2 = 0
        THEN [nan |-> d2 = 0, w |-> 0]
        ELSE [nan |-> FALSE, w |-> MathExpNeg(d2, s2)]

\* for (const hs of hotspots) { weightedStiff += w * hs.relStiff; totalWeight += w }
\* acc.nan: both sums are NaN (a NaN weight poisons both).
RECURSIVE HotspotLoop(_, _, _, _)
HotspotLoop(vtx, hotspots, k, acc) ==
    IF k > Len(hotspots) THEN acc
    ELSE LET hw == HotspotWeight(vtx, hotspots[k])
         IN  HotspotLoop(vtx, hotspots, k + 1,
                 [weightedStiff |-> acc.weightedStiff + hw.w * hotspots[k].relStiff,
                  totalWeight   |-> acc.totalWeight + hw.w,
                  nan           |-> acc.nan \/ hw.nan])

ZeroAcc == [weightedStiff |-> 0, totalWeight |-> 0, nan |-> FALSE]

\* a / b rounded to the nearest unit (a >= 0, b > 0): the double division
Quotient(a, b) == (2 * a + b) \div (2 * b)

NeutralRatio == 500
MinKPa == 500
MaxKPa == 15000

\* const relStiff = totalWeight > 0 ? weightedStiff / totalWeight : 0.5
RelStiffOf_Unnormalised(acc) ==
    IF (~acc.nan) /\ acc.totalWeight > 0
    THEN Quotient(acc.weightedStiff, WScale)
    ELSE NeutralRatio

RelStiffOf_NoFallback(acc) ==
    IF (~acc.nan) /\ acc.totalWeight > 0
    THEN Quotient(acc.weightedStiff, acc.totalWeight)
    ELSE 0

RelStiffOf(acc) ==
    IF (~acc.nan) /\ acc.totalWeight > 0
    THEN Quotient(acc.weightedStiff, acc.totalWeight)
    ELSE NeutralRatio

\* Math.max(0.5, Math.min(15.0, x))
ClampKPa_NoLower(x) == Min(MaxKPa, x)

ClampKPa_NoUpper(x) == Max(MinKPa, x)

ClampKPa(x) == Max(MinKPa, Min(MaxKPa, x))

\* _vtx.set(vertices[vi*3], vertices[vi*3+1], vertices[vi*3+2]) (vi from 0)
VtxSet_Stale(prev, vertices, vi) ==
    IF vi = 0 THEN prev
    ELSE <<vertices[vi * 3 + 1], vertices[vi * 3 + 2], vertices[vi * 3 + 3]>>

VtxSet(prev, vertices, vi) ==
    <<vertices[vi * 3 + 1], vertices[vi * 3 + 2], vertices[vi * 3 + 3]>>

\* the body of the vertex loop after _vtx.set: the value stored in result[vi]
VertexValue_NoScale(vtx, hotspots, globalStiffness) ==
    ClampKPa(RelStiffOf(HotspotLoop(vtx, hotspots, 1, ZeroAcc)))

VertexValue(vtx, hotspots, globalStiffness) ==
    ClampKPa(globalStiffness * RelStiffOf(HotspotLoop(vtx, hotspots, 1, ZeroAcc)))

\* for (let vi = 0; vi < count; vi++) { ... }: the result so far and _vtx
RECURSIVE VertexLoop(_, _, _, _, _)
VertexLoop(vertices, hotspots, globalStiffness, vi, st) ==
    IF vi >= Len(vertices) \div 3 THEN st
    ELSE LET vtx == VtxSet(st.vtx, vertices, vi)
         IN  VertexLoop(vertices, hotspots, globalStiffness, vi + 1,
                 [result |-> Append(st.result,
                                    VertexValue(vtx, hotspots, globalStiffness)),
                  vtx    |-> vtx])

\* computePerVertexStiffness(vertices, hotspots, globalStiffness), entered with
\* the scratch vector vtx0: the returned array and the scratch vector it leaves
computePerVertexStiffness_DropLast(vertices, hotspots, globalStiffness, vtx0) ==
    VertexLoop(SubSeq(vertices, 1, Max(0, Len(vertices) - 3)), hotspots,
               globalStiffness, 0, [result |-> <<>>, vtx |-> vtx0])

computePerVertexStiffness(vertices, hotspots, globalStiffness, vtx0) ==
    VertexLoop(vertices, hotspots, globalStiffness, 0,
               [result |-> <<>>, vtx |-> vtx0])

\* ---------------------------------------------------------------------------
\* Inputs of the function under test
\* ---------------------------------------------------------------------------
MaxV == 2
MaxH == 2

Origin == <<0, 0, 0>>

\* (0,0,0), (1,0,0), (0,1,0), (1,1,0) and a point 100 radii away from everything
Points ==
    { <<0, 0, 0>>, <<PosScale, 0, 0>>, <<0, PosScale, 0>>, <<PosScale, PosScale, 0>>,
      <<100 * PosScale, 0, 0>> }

\* the hotspot of the end-to-end scenario, one of the anatomical hotspots, and
\* a degenerate hotspot of radius 0
ScenarioHotspot == [pos |-> <<0, 0, 0>>, relStiff |-> 1500, radius |-> PosScale]
HotspotPool ==
    { ScenarioHotspot,
      [pos |-> <<0, -8, 10>>, relStiff |-> 300, radius |-> 13],
      [pos |-> <<20, 0, 0>>, relStiff |-> 1000, radius |-> 0] }

\* global stiffness values, in kPa
Stiffnesses == { -3, 0, 1, 4, 1000000 }

RECURSIVE Flatten(_)
Flatten(ps) ==
    IF ps = <<>> THEN <<>>
    ELSE <<ps[1][1], ps[1][2], ps[1][3]>> \o Flatten(Tail(ps))

SeqsUpTo(S, n) == UNION { [1..k -> S] : k \in 0..n }

ScenarioVertices ==
    Flatten(<< <<0, 0, 0>>, <<PosScale, 0, 0>>, <<0, PosScale, 0>>,
               <<PosScale, PosScale, 0>> >>)

VertexArrays == { Flatten(ps) : ps \in SeqsUpTo(Points, MaxV) } \cup { ScenarioVertices }

HotspotTables == SeqsUpTo(HotspotPool, MaxH)

\* ---------------------------------------------------------------------------
\* backend-mesh.tsx
\* ---------------------------------------------------------------------------
ANATOMY_HOTSPOTS ==
    << [pos |-> <<-16, 12, 6>>, relStiff |-> 1500, radius |-> 16],
       [pos |-> <<12, 6, -4>>,  relStiff |-> 850,  radius |-> 14],
       [pos |-> <<0, -8, 10>>,  relStiff |-> 300,  radius |-> 13] >>

\* stiffness={prediction?.stiffness ?? 2.0}
DefaultStiffness == 2
stiffnessProp_ZeroDefault(pred) == IF pred = NULL THEN 0 ELSE pred[1]

stiffnessProp(pred) == IF pred = NULL THEN DefaultStiffness ELSE pred[1]

createHologramMaterial(stiffness, heatmap) ==
    [uTime |-> 0, uStiffness |-> stiffness,
     uHeatmapEnabled |-> IF heatmap THEN 1 ELSE 0,
     uUseVertexStiffness |-> 0]

\* new THREE.BufferAttribute(array, 1)
BufferAttribute_Padded(array, id) ==
    [array |-> Append(array, 0), needsUpdate |-> FALSE, id |-> id]

BufferAttribute(array, id) == [array |-> array, needsUpdate |-> FALSE, id |-> id]

\* target.set(source) of a Float32Array: a longer source throws a RangeError and
\* writes nothing, a shorter one overwrites a prefix
TypedArraySet_FirstOnly(target, source) ==
    [threw |-> FALSE,
     array |-> [i \in 1..Len(target) |->
                   IF i = 1 /\ Len(source) >= 1 THEN source[1] ELSE target[i]]]

TypedArraySet_WritesNothing(target, source) == [threw |-> FALSE, array |-> target]

TypedArraySet(target, source) ==
    IF Len(source) > Len(target)
    THEN [threw |-> TRUE, array |-> target]
    ELSE [threw |-> FALSE,
          array |-> [i \in 1..Len(target) |->
                        IF i <= Len(source) THEN source[i] ELSE target[i]]]

\* LoadedMesh, first effect: scene.traverse over the meshes from mesh k on.
\* st = [geos, material, vtx, allocs, threw] is what the effects read and write:
\* the geometries, the uniforms, the scratch vector, the number of attributes
\* created, and the exception that ended the effect, if any
RECURSIVE AttachTraverse(_, _, _)
AttachTraverse(st, stiffness, k) ==
    IF k > Len(st.geos) THEN st
    ELSE LET geo == st.geos[k]
         IN  IF geo.position = NULL
             THEN AttachTraverse(st, stiffness, k + 1)
             ELSE LET r == computePerVertexStiffness(geo.position[1], ANATOMY_HOTSPOTS,
                                                     stiffness, st.vtx)
                      attr == BufferAttribute(r.result, st.allocs + 1)
                  IN  AttachTraverse(
                          [st EXCEPT !.geos[k].aVertexStiffness = Some(attr),
                                     !.material.uUseVertexStiffness = 1,
                                     !.vtx = r.vtx,
                                     !.allocs = st.allocs + 1],
                          stiffness, k + 1)

\* the update of one geometry in the second effect of LoadedMesh
UpdateGeometry_Blends(st, stiffness, k) ==
    LET geo == st.geos[k]
        r == computePerVertexStiffness(geo.position[1], ANATOMY_HOTSPOTS,
                                       stiffness, st.vtx)
        existing == geo.aVertexStiffness[1]
    IN  [st EXCEPT
            !.geos[k].aVertexStiffness =
                Some([existing EXCEPT
                          !.array = [i \in 1..Len(existing.array) |->
                                        (existing.array[i] + r.result[i]) \div 2],
                          !.needsUpdate = TRUE]),
            !.vtx = r.vtx]

UpdateGeometry_Reallocates(st, stiffness, k) ==
    LET geo == st.geos[k]
        r == computePerVertexStiffness(geo.position[1], ANATOMY_HOTSPOTS,
                                       stiffness, st.vtx)
    IN  [st EXCEPT
            !.geos[k].aVertexStiffness =
                Some([BufferAttribute(r.result, st.allocs + 1)
                          EXCEPT !.needsUpdate = TRUE]),
            !.material.uUseVertexStiffness = 1,
            !.vtx = r.vtx,
            !.allocs = st.allocs + 1]

UpdateGeometry_NoLazyAttach(st, stiffness, k) ==
    LET geo == st.geos[k]
        r == computePerVertexStiffness(geo.position[1], ANATOMY_HOTSPOTS,
                                       stiffness, st.vtx)
    IN  IF geo.aVertexStiffness # NULL
        THEN LET existing == geo.aVertexStiffness[1]
                 set == TypedArraySet(existing.array, r.result)
             IN  [st EXCEPT
                     !.geos[k].aVertexStiffness =
                         Some([existing EXCEPT
                                   !.array = set.array,
                                   !.needsUpdate = IF set.threw THEN @ ELSE TRUE]),
                     !.vtx = r.vtx,
                     !.threw = IF set.threw THEN Some("RangeError") ELSE NULL]
        ELSE [st EXCEPT !.vtx = r.vtx, !.threw = Some("NotAttached")]

UpdateGeometry(st, stiffness, k) ==
    LET geo == st.geos[k]
        r == computePerVertexStiffness(geo.position[1], ANATOMY_HOTSPOTS,
                                       stiffness, st.vtx)
    IN  IF geo.aVertexStiffness # NULL
        THEN LET existing == geo.aVertexStiffness[1]
                 set == TypedArraySet(existing.array, r.result)
             IN  [st EXCEPT
                     !.geos[k].aVertexStiffness =
                         Some([existing EXCEPT
                                   !.array = set.array,
                                   !.needsUpdate = IF set.threw THEN @ ELSE TRUE]),
                     !.vtx = r.vtx,
                     !.threw = IF set.threw THEN Some("RangeError") ELSE NULL]
        ELSE [st EXCEPT
                 !.geos[k].aVertexStiffness =
                     Some(BufferAttribute(r.result, st.allocs + 1)),
                 !.material.uUseVertexStiffness = 1,
                 !.vtx = r.vtx,
                 !.allocs = st.allocs + 1]

\* LoadedMesh, second effect: scene.traverse over the meshes from mesh k on; an
\* exception of set() ends the traversal
RECURSIVE UpdateTraverse(_, _, _)
UpdateTraverse(st, stiffness, k) ==
    IF k > Len(st.geos) \/ st.threw # NULL THEN st
    ELSE IF st.geos[k].position = NULL
         THEN UpdateTraverse(st, stiffness, k + 1)
         ELSE UpdateTraverse(UpdateGeometry(st, stiffness, k), stiffness, k + 1)

\* LoadedMesh, second effect
LoadedUpdateEffect(st, stiffness, heatmap) ==
    UpdateTraverse(
        [st EXCEPT !.material.uStiffness = stiffness,
                   !.material.uHeatmapEnabled = IF heatmap THEN 1 ELSE 0],
        stiffness, 1)

\* FallbackMesh, the effect: the capsule is geos[1] and always has its attribute
FallbackUpdateEffect(st, stiffness, heatmap) ==
    LET geo == st.geos[1]
        perVS == computePerVertexStiffness(geo.position[1], ANATOMY_HOTSPOTS,
                                           stiffness, st.vtx)
        attr == geo.aVertexStiffness[1]
        set == TypedArraySet(attr.array, perVS.result)
    IN  [st EXCEPT
            !.material.uStiffness = stiffness,
            !.material.uHeatmapEnabled = IF heatmap THEN 1 ELSE 0,
            !.geos[1].aVertexStiffness =
                Some([attr EXCEPT !.array = set.array,
                                  !.needsUpdate = IF set.threw THEN @ ELSE TRUE]),
            !.vtx = perVS.vtx,
            !.threw = IF set.threw THEN Some("RangeError") ELSE NULL]

\* avg.toFixed(2) for avg = sum / 3: the digits, in hundredths (ties go up)
toFixed2_Truncate(sum) == sum \div (3 * (FieldScale \div 100))

toFixed2(sum) == (2 * sum + 3 * (FieldScale \div 100)) \div (6 * (FieldScale \div 100))
\* parseFloat of those digits
parseFloat2(digits) == digits * (FieldScale \div 100)

\* handlePointerMove of LoadedMesh: the argument passed to
\* onHoverStiffness.  e = [face |-> NULL or <<[a, b, c]>>, object |-> mesh number]
handlePointerMove_MountSnapshot(e, gs) ==
    IF e.face = NULL THEN NULL
    ELSE LET field == computePerVertexStiffness(gs[e.object].position[1],
                                                ANATOMY_HOTSPOTS, DefaultStiffness,
                                                Origin).result
         IN  Some(parseFloat2(toFixed2(field[e.face[1].a + 1] + field[e.face[1].b + 1]
                                       + field[e.face[1].c + 1])))

handlePointerMove_ZeroOnMiss(e, gs) ==
    IF e.face = NULL THEN Some(0)
    ELSE LET stiffAttr == gs[e.object].aVertexStiffness
         IN  IF stiffAttr = NULL THEN Some(0)
             ELSE Some(parseFloat2(toFixed2(stiffAttr[1].array[e.face[1].a + 1]
                                            + stiffAttr[1].array[e.face[1].b + 1]
                                            + stiffAttr[1].array[e.face[1].c + 1])))

handlePointerMove(e, gs) ==
    IF e.face = NULL THEN NULL
    ELSE LET stiffAttr == gs[e.object].aVertexStiffness
         IN  IF stiffAttr = NULL THEN NULL
             ELSE LET sa == stiffAttr[1].array[e.face[1].a + 1]
                      sb == stiffAttr[1].array[e.face[1].b + 1]
                      sc == stiffAttr[1].array[e.face[1].c + 1]
                  IN  Some(parseFloat2(toFixed2(sa + sb + sc)))

\* ---------------------------------------------------------------------------
\* hologram.frag.glsl: the heatmap ramp.  Stiffness is in units of 1/FieldScale
\* kPa, so t = stiffness / 10.0 is in units of 1/TScale; blend factors and
\* colour components are in units of 1/FieldScale
\* ---------------------------------------------------------------------------
TScale == 10 * FieldScale

clamp(x, lo, hi) == Min(Max(x, lo), hi)

\* smoothstep(edge0, edge1, x): u = clamp((x - edge0) / (edge1 - edge0), 0, 1),
\* then u * u * (3 - 2 * u)
smoothstep_Linear(edge0, edge1, x) ==
    clamp(Quotient(Max(x - edge0, 0) * FieldScale, edge1 - edge0), 0, FieldScale)

smoothstep(edge0, edge1, x) ==
    LET u == clamp(Quotient(Max(x - edge0, 0) * FieldScale, edge1 - edge0),
                   0, FieldScale)
    IN  Quotient(u * u * (3 * FieldScale - 2 * u), FieldScale * FieldScale)

\* mix(x, y, f) = x * (1 - f) + y * f, by component
mix(x, y, f) ==
    [i \in 1..3 |-> IF y[i] >= x[i] THEN x[i] + Quotient((y[i] - x[i]) * f, FieldScale)
                    ELSE x[i] - Quotient((x[i] - y[i]) * f, FieldScale)]

green  == << 0, FieldScale, FieldScale \div 2 >>
yellow == << FieldScale, (8 * FieldScale) \div 10, 0 >>
red    == << FieldScale, 0, (3 * FieldScale) \div 10 >>

heatmapColor(stiffness) ==
    LET t == clamp(stiffness, 0, TScale)
    IN  IF t < TScale \div 5 THEN green
        ELSE IF t < TScale \div 2
             THEN mix(green, yellow, smoothstep(TScale \div 5, TScale \div 2, t))
             ELSE mix(yellow, red, smoothstep(TScale \div 2, TScale, t))

\* the tier of the ramp a stiffness falls in: the branch heatmapColor takes,
\* named as its colours are commented (Healthy, Moderate, Lesion)
heatmapTier(stiffness) ==
    LET t == clamp(stiffness, 0, TScale)
    IN  IF t < TScale \div 5 THEN "HEALTHY"
        ELSE IF t < TScale \div 2 THEN "MODERATE" ELSE "LESION"

\* ---------------------------------------------------------------------------
\* The meshes
\* ---------------------------------------------------------------------------
Face(a, b, c) == [a |-> a, b |-> b, c |-> c]

Geometry(points, index) ==
    [position |-> Some(Flatten(points)), index |-> index, aVertexStiffness |-> NULL]

\* a mesh whose geometry has no position attribute
BareGeometry == [position |-> NULL, index |-> <<>>, aVertexStiffness |-> NULL]

TriGeometry ==
    Geometry(<< <<22, -36, 0>>, <<16, 32, 0>>, <<-70, 12, 6>> >>, << Face(0, 1, 2) >>)

QuadGeometry ==
    Geometry(<< <<0, 0, 0>>, <<20, 0, 0>>, <<0, 20, 0>>, <<-16, 12, 6>> >>,
             << Face(0, 1, 2), Face(2, 1, 3) >>)

\* a triangle whose field at 2 kPa is just below 2.0 kPa at every vertex
EdgeGeometry ==
    Geometry(<< <<-7, 4, 0>>, <<-18, -8, 0>>, <<13, 25, 0>> >>, << Face(0, 1, 2) >>)

\* the GLB scenes a meshUrl can name: the geometries of their meshes
Scenes == [tri   |-> << TriGeometry >>,
           quad  |-> << QuadGeometry >>,
           pair  |-> << TriGeometry, QuadGeometry >>,
           bare  |-> << BareGeometry, TriGeometry >>,
           edge  |-> << EdgeGeometry >>]

\* new THREE.CapsuleGeometry(1.0, 2.0, 32, 64), sampled at four of its vertices
CapsuleGeometry ==
    Geometry(<< <<0, 40, 0>>, <<20, 0, 0>>, <<0, 0, 20>>, <<0, -40, 0>> >>,
             << Face(0, 1, 2), Face(1, 2, 3) >>)

MaxTime == 2

NoEvent == [kind |-> "none", face |-> NULL, object |-> 0, lesions |-> NULL]

\* ---------------------------------------------------------------------------
\* The dashboard: SimulationPage -> DigitalTwinViewer -> BackendMesh
\* ---------------------------------------------------------------------------
InitUI(urls) ==
    /\ prediction = NULL
    /\ heatmapEnabled = TRUE
    /\ hoveredStiffness = NULL
    /\ meshUrl \in urls
    /\ mounted = FALSE
    /\ geos = IF meshUrl = NULL THEN <<>> ELSE Scenes[meshUrl[1]]
    /\ material = NULL
    /\ clock = 0
    /\ allocs = 0
    /\ thrown = NULL
    /\ lastEvent = NoEvent

Init ==
    /\ InitUI({NULL} \cup { Some(n) : n \in DOMAIN Scenes })
    /\ fnArgs = NULL
    /\ fnLog = <<>>
    /\ _vtx = Origin

\* what the first render and the first effect of LoadedMesh leave: the attach
LoadedAttach_ZeroFilled(gs, vtx, n, stiffness, heatmap) ==
    LET st == AttachTraverse([geos |-> gs,
                              material |-> createHologramMaterial(stiffness, heatmap),
                              vtx |-> vtx, allocs |-> n, threw |-> NULL],
                             stiffness, 1)
    IN  [st EXCEPT !.geos =
            [k \in 1..Len(st.geos) |->
                IF st.geos[k].aVertexStiffness = NULL THEN st.geos[k]
                ELSE [st.geos[k] EXCEPT !.aVertexStiffness[1].array =
                          [i \in 1..Len(@) |-> 0]]]]

LoadedAttach(gs, vtx, n, stiffness, heatmap) ==
    AttachTraverse([geos |-> gs,
                    material |-> createHologramMaterial(stiffness, heatmap),
                    vtx |-> vtx, allocs |-> n, threw |-> NULL],
                   stiffness, 1)

\* what the first render and both effects of LoadedMesh leave
LoadedMount(gs, vtx, n, stiffness, heatmap) ==
    LoadedUpdateEffect(LoadedAttach(gs, vtx, n, stiffness, heatmap),
                       stiffness, heatmap)

\* what the first render of FallbackMesh leaves (the geometry and the material
\* memo): the attach
FallbackAttach(vtx, n, stiffness, heatmap) ==
    LET perVertexStiffness ==
            computePerVertexStiffness(CapsuleGeometry.position[1], ANATOMY_HOTSPOTS,
                                      stiffness, vtx)
        geo == [CapsuleGeometry EXCEPT !.aVertexStiffness =
                    Some(BufferAttribute(perVertexStiffness.result, n + 1))]
        mat == [createHologramMaterial(stiffness, heatmap)
                    EXCEPT !.uUseVertexStiffness = 1]
    IN  [geos |-> << geo >>, material |-> mat,
         vtx |-> perVertexStiffness.vtx, allocs |-> n + 1, threw |-> NULL]

\* what the first render and the effect of FallbackMesh leave
FallbackMount(vtx, n, stiffness, heatmap) ==
    FallbackUpdateEffect(FallbackAttach(vtx, n, stiffness, heatmap),
                         stiffness, heatmap)

\* BackendMesh renders LoadedMesh (once useGLTF has the scene) or FallbackMesh;
\* an exception that escapes an effect takes the viewer down
Mount ==
    /\ ~mounted
    /\ thrown = NULL
    /\ LET st == IF meshUrl # NULL
                 THEN LoadedMount(geos, _vtx, allocs, stiffnessProp(prediction),
                                  heatmapEnabled)
                 ELSE FallbackMount(_vtx, allocs, stiffnessProp(prediction),
                                    heatmapEnabled)
       IN  /\ geos' = st.geos
           /\ material' = Some(st.material)
           /\ _vtx' = st.vtx
           /\ allocs' = st.allocs
           /\ thrown' = st.threw
           /\ mounted' = (st.threw = NULL)
    /\ lastEvent' = [NoEvent EXCEPT !.kind = "mount"]
    /\ UNCHANGED <<prediction, heatmapEnabled, hoveredStiffness, meshUrl, clock,
                   fnVars>>

\* the update effect of the mounted component, run after a render in which
\* stiffness or heatmapEnabled changed
RunUpdateEffect(stiffness, heatmap) ==
    LET st0 == [geos |-> geos, material |-> material[1], vtx |-> _vtx,
                allocs |-> allocs, threw |-> NULL]
        st == IF meshUrl # NULL
              THEN LoadedUpdateEffect(st0, stiffness, heatmap)
              ELSE FallbackUpdateEffect(st0, stiffness, heatmap)
    IN  /\ geos' = st.geos
        /\ material' = Some(st.material)
        /\ _vtx' = st.vtx
        /\ allocs' = st.allocs
        /\ thrown' = st.threw
        /\ mounted' = (st.threw = NULL)

\* the props DigitalTwinViewer hands to BackendMesh, of what it has in scope:
\* its stiffness prop, the lesions of predictionData, its heatmap state
BackendMeshProps_LesionPeak(stiffness, lesionList, heatmap) ==
    [stiffness |-> IF lesionList = NULL \/ lesionList[1] = <<>> THEN stiffness
                   ELSE Max(stiffness, lesionList[1][1].stiffness),
     heatmapEnabled |-> heatmap]

BackendMeshProps(stiffness, lesionList, heatmap) ==
    [stiffness |-> stiffness, heatmapEnabled |-> heatmap]

\* handlePredict: setPrediction(result), for a result of global stiffness g
\* whose lesions field is ls (NULL when the response has none)
PredictionArrives(g, ls) ==
    /\ prediction' = Some(g)
    /\ IF mounted /\ stiffnessProp(prediction') # stiffnessProp(prediction)
       THEN LET props == BackendMeshProps(stiffnessProp(prediction'), ls, heatmapEnabled)
            IN  RunUpdateEffect(props.stiffness, props.heatmapEnabled)
       ELSE UNCHANGED <<geos, material, _vtx, allocs, thrown, mounted>>
    /\ lastEvent' = [NoEvent EXCEPT !.kind = "prediction", !.lesions = ls]
    /\ UNCHANGED <<heatmapEnabled, hoveredStiffness, meshUrl, clock, fnVars>>

\* the HEATMAP button: setHeatmapEnabled(!heatmapEnabled)
ToggleHeatmap_DefaultStiffness ==
    /\ heatmapEnabled' = ~heatmapEnabled
    /\ IF mounted
       THEN RunUpdateEffect(DefaultStiffness, heatmapEnabled')
       ELSE UNCHANGED <<geos, material, _vtx, allocs, thrown, mounted>>
    /\ lastEvent' = [NoEvent EXCEPT !.kind = "toggle"]
    /\ UNCHANGED <<prediction, hoveredStiffness, meshUrl, clock, fnVars>>

ToggleHeatmap ==
    /\ heatmapEnabled' = ~heatmapEnabled
    /\ IF mounted
       THEN RunUpdateEffect(stiffnessProp(prediction), heatmapEnabled')
       ELSE UNCHANGED <<geos, material, _vtx, allocs, thrown, mounted>>
    /\ lastEvent' = [NoEvent EXCEPT !.kind = "toggle"]
    /\ UNCHANGED <<prediction, hoveredStiffness, meshUrl, clock, fnVars>>

\* handlePointerMove of FallbackMesh on its own: it reads the geometry of the
\* memo, whatever object the event names
FallbackHandlePointerMove_Sum(e, geometry) ==
    IF e.face = NULL THEN NULL
    ELSE LET attr == geometry.aVertexStiffness
         IN  IF attr = NULL THEN NULL
             ELSE Some(attr[1].array[e.face[1].a + 1] + attr[1].array[e.face[1].b + 1]
                           + attr[1].array[e.face[1].c + 1])

FallbackHandlePointerMove(e, geometry) ==
    IF e.face = NULL THEN NULL
    ELSE LET attr == geometry.aVertexStiffness
         IN  IF attr = NULL THEN NULL
             ELSE Some(parseFloat2(toFixed2(attr[1].array[e.face[1].a + 1]
                                            + attr[1].array[e.face[1].b + 1]
                                            + attr[1].array[e.face[1].c + 1])))

\* the pointer moves over mesh `object`; the ray hit carries a face of its
\* index, or none
PointerMove(object, face) ==
    /\ mounted
    /\ hoveredStiffness' =
           IF meshUrl # NULL
           THEN handlePointerMove([face |-> face, object |-> object], geos)
           ELSE FallbackHandlePointerMove([face |-> face, object |-> object], geos[1])
    /\ lastEvent' = [NoEvent EXCEPT !.kind = "move", !.face = face, !.object = object]
    /\ UNCHANGED <<prediction, heatmapEnabled, meshUrl, mounted, geos, material,
                   clock, allocs, thrown, _vtx, fnVars>>

PointerLeave_ClearsFlag ==
    /\ mounted
    /\ hoveredStiffness' = NULL
    /\ material' = Some([material[1] EXCEPT !.uUseVertexStiffness = 0])
    /\ lastEvent' = [NoEvent EXCEPT !.kind = "leave"]
    /\ UNCHANGED <<prediction, heatmapEnabled, meshUrl, mounted, geos,
                   clock, allocs, thrown, _vtx, fnVars>>

\* handlePointerLeave
PointerLeave ==
    /\ mounted
    /\ hoveredStiffness' = NULL
    /\ lastEvent' = [NoEvent EXCEPT !.kind = "leave"]
    /\ UNCHANGED <<prediction, heatmapEnabled, meshUrl, mounted, geos, material,
                   clock, allocs, thrown, _vtx, fnVars>>

\* onPointerMissed of the Canvas
PointerMissed ==
    /\ hoveredStiffness' = NULL
    /\ lastEvent' = [NoEvent EXCEPT !.kind = "missed"]
    /\ UNCHANGED <<prediction, heatmapEnabled, meshUrl, mounted, geos, material,
                   clock, allocs, thrown, _vtx, fnVars>>

\* useFrame: material.uniforms.uTime.value = state.clock.elapsedTime
Frame ==
    /\ clock < MaxTime
    /\ clock' = clock + 1
    /\ material' = IF mounted THEN Some([material[1] EXCEPT !.uTime = clock'])
                   ELSE material
    /\ lastEvent' = [NoEvent EXCEPT !.kind = "frame"]
    /\ UNCHANGED <<prediction, heatmapEnabled, hoveredStiffness, meshUrl, mounted,
                   geos, allocs, thrown, _vtx, fnVars>>

\* StiffnessTooltip of the viewer: the number it is given, its colour and its
\* label
StiffnessTooltip_LesionFromSix(stiffness) ==
    [stiffness |-> stiffness,
     color |-> IF stiffness < 2 * FieldScale THEN "#39ff14"
               ELSE IF stiffness < 6 * FieldScale THEN "#ffc107" ELSE "#ff006e",
     label |-> IF stiffness < 2 * FieldScale THEN "HEALTHY"
               ELSE IF stiffness < 6 * FieldScale THEN "MODERATE" ELSE "LESION"]

StiffnessTooltip(stiffness) ==
    [stiffness |-> stiffness,
     color |-> IF stiffness < 2 * FieldScale THEN "#39ff14"
               ELSE IF stiffness < 5 * FieldScale THEN "#ffc107" ELSE "#ff006e",
     label |-> IF stiffness < 2 * FieldScale THEN "HEALTHY"
               ELSE IF stiffness < 5 * FieldScale THEN "MODERATE" ELSE "LESION"]

\* {hoveredStiffness !== null && <StiffnessTooltip stiffness={hoveredStiffness} />}
\* of DigitalTwinViewer: the tooltip element that is rendered, if any
TooltipRender_ZeroForNull(hovered) ==
    IF hovered # NULL THEN Some(StiffnessTooltip(hovered[1]))
    ELSE Some(StiffnessTooltip(0))

TooltipRender(hovered) ==
    IF hovered # NULL THEN Some(StiffnessTooltip(hovered[1])) ELSE NULL

\* buffers created before the model stops following the user back and forth
MaxAllocs == 2

\* the user follows a link of the navigation away from the simulation page and
\* comes back later: the page, the viewer and the mesh component are unmounted
\* and their state, the material and the capsule are dropped; no effect has a
\* cleanup, and the scene of the GLB stays in the cache of useGLTF as it is
Unmount ==
    /\ mounted
    /\ allocs < MaxAllocs
    /\ mounted' = FALSE
    /\ prediction' = NULL
    /\ heatmapEnabled' = TRUE
    /\ hoveredStiffness' = NULL
    /\ material' = NULL
    /\ geos' = IF meshUrl # NULL THEN geos ELSE <<>>
    /\ clock' = 0
    /\ lastEvent' = [NoEvent EXCEPT !.kind = "unmount"]
    /\ UNCHANGED <<meshUrl, allocs, thrown, _vtx, fnVars>>

\* the meshes a ray can hit: those whose geometry has positions
Hittable == { k \in 1..Len(geos) : geos[k].position # NULL }
FacesOf(k) == { geos[k].index[i] : i \in 1..Len(geos[k].index) }

PredictedStiffnesses == { 0, 4, 12 }

\* the lesions field of a prediction: absent, or a list of lesions with their
\* own stiffness (kPa)
PredictedLesions ==
    { NULL, Some(<< [id |-> "L001", stiffness |-> 9, severity |-> "high"] >>) }

Next ==
    \/ Mount
    \/ \E g \in PredictedStiffnesses : PredictionArrives(g, NULL)
    \/ ToggleHeatmap
    \/ \E k \in Hittable : \E f \in FacesOf(k) : PointerMove(k, Some(f))
    \/ \E k \in Hittable : PointerMove(k, NULL)
    \/ PointerLeave
    \/ PointerMissed
    \/ Frame
    \/ Unmount

Spec == Init /\ [][Next]_vars

\* ---------------------------------------------------------------------------
\* computePerVertexStiffness on its own
\* ---------------------------------------------------------------------------
Args(v, h, g) == [vertices |-> v, hotspots |-> h, globalStiffness |-> g]

InitField ==
    /\ InitUI({NULL})
    /\ fnArgs \in { Args(v, h, g) : v \in VertexArrays, h \in HotspotTables,
                                    g \in Stiffnesses }
    /\ fnLog = <<>>
    /\ _vtx = Origin

MaxCalls == 2

\* call the function with fnArgs and keep what it returns
Compute ==
    /\ Len(fnLog) < MaxCalls
    /\ LET r == computePerVertexStiffness(fnArgs.vertices, fnArgs.hotspots,
                                          fnArgs.globalStiffness, _vtx)
       IN  /\ fnLog' = Append(fnLog, [entry |-> _vtx, result |-> r.result])
           /\ _vtx' = r.vtx
    /\ UNCHANGED <<fnArgs, uiVars>>

Returned == fnLog # <<>>
Result == fnLog[Len(fnLog)].result

\* a call with other arguments, whose result is dropped
ComputeOther(v, h, g) ==
    /\ Args(v, h, g) # fnArgs
    /\ _vtx' = computePerVertexStiffness(v, h, g, _vtx).vtx
    /\ UNCHANGED <<fnVars, uiVars>>

NextField == Compute

SpecField == InitField /\ [][NextField]_vars

InitCalls ==
    /\ InitUI({NULL})
    /\ fnArgs \in { Args(v, h, 4) : v \in VertexArrays,
                                    h \in { << ScenarioHotspot >>,
                                            SubSeq(ANATOMY_HOTSPOTS, 2, 3) } }
    /\ fnLog = <<>>
    /\ _vtx = Origin

NextCalls ==
    \/ Compute
    \/ \E p \in Points : ComputeOther(Flatten(<< p >>), ANATOMY_HOTSPOTS, 2)

SpecCalls == InitCalls /\ [][NextCalls]_vars

\* ---------------------------------------------------------------------------
\* The update effect of LoadedMesh on its own
\* ---------------------------------------------------------------------------
\* the aVertexStiffness attribute the effect may find on geometry geo, mesh k
\* of the scene: none, or one of n - 1, n or n + 1 elements for the n vertices
\* of geo, holding 1.0, 2.0, ... kPa
FoundAttributes(geo, k) ==
    IF geo.position = NULL THEN { NULL }
    ELSE LET n == Len(geo.position[1]) \div 3
         IN  { NULL } \cup
             { Some(BufferAttribute([i \in 1..m |-> i * FieldScale], k)) :
                   m \in { n - 1, n, n + 1 } }

\* the scene `name` with each geometry as the effect may find it
FoundScenes(name) ==
    LET gs == Scenes[name]
        All == UNION { FoundAttributes(gs[k], k) : k \in 1..Len(gs) }
    IN  { [k \in 1..Len(gs) |-> [gs[k] EXCEPT !.aVertexStiffness = f[k]]] :
              f \in { h \in [1..Len(gs) -> All] :
                          \A k \in 1..Len(gs) : h[k] \in FoundAttributes(gs[k], k) } }

\* a mounted LoadedMesh whose scene the effect is about to traverse
InitEffect ==
    /\ prediction = NULL
    /\ heatmapEnabled = TRUE
    /\ hoveredStiffness = NULL
    /\ meshUrl \in { Some(n) : n \in DOMAIN Scenes }
    /\ mounted = TRUE
    /\ geos \in FoundScenes(meshUrl[1])
    /\ material =
           Some([createHologramMaterial(DefaultStiffness, TRUE) EXCEPT
                     !.uUseVertexStiffness =
                         IF \E k \in 1..Len(geos) : geos[k].aVertexStiffness # NULL
                         THEN 1 ELSE 0])
    /\ clock = 0
    /\ allocs = Len(geos)
    /\ thrown = NULL
    /\ lastEvent = NoEvent
    /\ fnArgs = NULL
    /\ fnLog = <<>>
    /\ _vtx = Origin

NextEffect ==
    \/ \E g \in PredictedStiffnesses : PredictionArrives(g, NULL)
    \/ ToggleHeatmap

SpecEffect == InitEffect /\ [][NextEffect]_vars

\* ---------------------------------------------------------------------------
\* The dashboard fed with predictions that list lesions, and hovered
\* ---------------------------------------------------------------------------
NextLesions ==
    \/ Mount
    \/ \E g \in PredictedStiffnesses : \E ls \in PredictedLesions : PredictionArrives(g, ls)
    \/ \E k \in Hittable : \E f \in FacesOf(k) : PointerMove(k, Some(f))

SpecLesions == Init /\ [][NextLesions]_vars

\* ---------------------------------------------------------------------------
\* The update effect as a passive effect: a prediction is rendered first and
\* its effect runs later, as one synchronous callback; frames and pointer
\* events are handled in between
\* ---------------------------------------------------------------------------
\* the props rendered last have not been applied by the update effect yet
Pending ==
    /\ mounted
    /\ material[1].uStiffness # stiffnessProp(prediction)

\* setPrediction(result) and the render it causes; effects of an earlier render
\* are flushed before a new one
SetPrediction(g) ==
    /\ ~Pending
    /\ prediction' = Some(g)
    /\ lastEvent' = [NoEvent EXCEPT !.kind = "prediction"]
    /\ UNCHANGED <<heatmapEnabled, hoveredStiffness, meshUrl, mounted, geos, material,
                   clock, allocs, thrown, _vtx, fnVars>>

\* the update effect of the render runs
FlushEffect ==
    /\ Pending
    /\ RunUpdateEffect(stiffnessProp(prediction), heatmapEnabled)
    /\ lastEvent' = [NoEvent EXCEPT !.kind = "effect"]
    /\ UNCHANGED <<prediction, heatmapEnabled, hoveredStiffness, meshUrl, clock, fnVars>>

NextPassive ==
    \/ Mount
    \/ \E g \in PredictedStiffnesses : SetPrediction(g)
    \/ FlushEffect
    \/ Frame
    \/ \E k \in Hittable : \E f \in FacesOf(k) : PointerMove(k, Some(f))

SpecPassive == Init /\ [][NextPassive]_vars

\* ---------------------------------------------------------------------------
\* heatmapColor on its own
\* ---------------------------------------------------------------------------
\* the stiffness of a fragment: -1.0 to 16.0 kPa in steps of 0.05 kPa
RampInputs == { i * (FieldScale \div 20) : i \in -20..320 }

InitRamp ==
    /\ InitUI({NULL})
    /\ fnArgs \in { [stiffness |-> x] : x \in RampInputs }
    /\ fnLog = <<>>
    /\ _vtx = Origin

\* vec3 heatColor = heatmapColor(effectiveStiffness)
Shade ==
    /\ fnLog = <<>>
    /\ fnLog' = << [stiffness |-> fnArgs.stiffness,
                    result |-> heatmapColor(fnArgs.stiffness)] >>
    /\ UNCHANGED <<fnArgs, _vtx, uiVars>>

NextRamp == Shade

SpecRamp == InitRamp /\ [][NextRamp]_vars

\* ===========================================================================
\* Properties of computePerVertexStiffness (SpecField, SpecCalls)
\* ===========================================================================
VertexCount == Len(fnArgs.vertices) \div 3
VertexAt(i) == <<fnArgs.vertices[3 * i - 2], fnArgs.vertices[3 * i - 1],
                 fnArgs.vertices[3 * i]>>

\* the sums of the claim, written over the table and not as the loop of the code
RECURSIVE SumWeight(_, _)
SumWeight(vtx, hs) ==
    IF hs = <<>> THEN 0 ELSE HotspotWeight(vtx, Head(hs)).w + SumWeight(vtx, Tail(hs))

RECURSIVE SumWeightedStiffness(_, _)
SumWeightedStiffness(vtx, hs) ==
    IF hs = <<>> THEN 0
    ELSE HotspotWeight(vtx, Head(hs)).w * Head(hs).relStiff
             + SumWeightedStiffness(vtx, Tail(hs))

\* the summed weight is a number greater than 0
PositiveWeight(vtx, hs) ==
    /\ \A k \in 1..Len(hs) : ~HotspotWeight(vtx, hs[k]).nan
    /\ SumWeight(vtx, hs) > 0

\* the multiple of 1/FieldScale nearest to a / b
Nearest(a, b) ==
    CHOOSE r \in (a \div b)..(a \div b + 1) : 2 * r * b - 2 * a \in (1 - b)..b

Clamped(x) ==
    IF x < FieldScale \div 2 THEN FieldScale \div 2
    ELSE IF x > 15 * FieldScale THEN 15 * FieldScale ELSE x

\* C1: every element of the returned array lies in [0.5, 15.0] kPa, whatever the
\* vertices, the hotspot table and the global stiffness (0, negative, 1e6) are.
C1_FieldInRange ==
    Returned =>
        \A i \in 1..Len(Result) :
            /\ Result[i] >= FieldScale \div 2
            /\ Result[i] <= 15 * FieldScale

C1_Witness ==
    /\ Returned
    /\ fnArgs.globalStiffness = 1000000
    /\ \E i \in 1..Len(Result) : Result[i] = 15 * FieldScale

\* C2: the returned array has exactly one element per vertex (also for no
\* vertices and for no hotspots), and element i is the value of vertex i: the
\* value the function returns for the array made of vertex i alone.
C2_OnePerVertex ==
    Returned =>
        /\ 3 * Len(Result) = Len(fnArgs.vertices)
        /\ \A i \in 1..Len(Result) :
               Result[i] = computePerVertexStiffness(
                               SubSeq(fnArgs.vertices, 3 * i - 2, 3 * i),
                               fnArgs.hotspots, fnArgs.globalStiffness,
                               Origin).result[1]

C2_Witness ==
    /\ Returned
    /\ Len(Result) >= 2
    /\ Result[1] # Result[2]

\* C3: a vertex whose summed weight is greater than 0 gets
\* clamp(globalStiffness * (sum of w * relStiff / sum of w), 0.5, 15.0); a vertex
\* at distance 0 from a single hotspot of relStiff 1.5 gets 6.0 at stiffness 4.
C3_BlendFormula ==
    Returned =>
        \A i \in 1..VertexCount :
            /\ PositiveWeight(VertexAt(i), fnArgs.hotspots) =>
                   Result[i] = Clamped(fnArgs.globalStiffness
                                   * Nearest(SumWeightedStiffness(VertexAt(i),
                                                                  fnArgs.hotspots),
                                             SumWeight(VertexAt(i), fnArgs.hotspots)))
            /\ ( /\ Len(fnArgs.hotspots) = 1
                 /\ fnArgs.hotspots[1].relStiff = 1500
                 /\ fnArgs.hotspots[1].radius > 0
                 /\ fnArgs.hotspots[1].pos = VertexAt(i)
                 /\ fnArgs.globalStiffness = 4 ) => Result[i] = 6 * FieldScale

C3_Witness ==
    /\ Returned
    /\ fnArgs.hotspots = << ScenarioHotspot >>
    /\ fnArgs.globalStiffness = 4
    /\ VertexCount >= 1
    /\ VertexAt(1) = ScenarioHotspot.pos
    /\ Result[1] = 6 * FieldScale

\* C4: a vertex whose summed weight is not greater than 0 (100 radii away from
\* every hotspot, or no hotspot at all) gets clamp(globalStiffness * 0.5, 0.5,
\* 15.0), which is never zero.
C4_NeutralFallback ==
    Returned =>
        \A i \in 1..VertexCount :
            ~PositiveWeight(VertexAt(i), fnArgs.hotspots) =>
                /\ Result[i] = Clamped(fnArgs.globalStiffness * (FieldScale \div 2))
                /\ Result[i] # 0

C4_Witness ==
    /\ Returned
    /\ fnArgs.hotspots = << ScenarioHotspot >>
    /\ fnArgs.globalStiffness = 4
    /\ VertexCount >= 1
    /\ VertexAt(1) = <<100 * ScenarioHotspot.radius, 0, 0>>
    /\ Result[1] = 2 * FieldScale

\* The end-to-end scenario: the four vertices, the one hotspot, stiffness 4.0.
Scenario ==
    /\ fnArgs = Args(ScenarioVertices, << ScenarioHotspot >>, 4)
    /\ Returned

\* C5, as claimed: in the scenario vertex 3 gets a value strictly between 2.0
\* and 6.0, and the values do not grow with the distance from the hotspot.
C5_Original ==
    Scenario =>
        /\ Result[4] > 2 * FieldScale
        /\ Result[4] < 6 * FieldScale
        /\ \A i, j \in 1..4 :
               distanceToSquared(VertexAt(i), ScenarioHotspot.pos)
                   <= distanceToSquared(VertexAt(j), ScenarioHotspot.pos)
               => Result[i] >= Result[j]

\* C5, amended: in the scenario vertex 3 gets exactly 6.0, as vertex 0 and every
\* other vertex do (the single hotspot's weight cancels in the ratio), so the
\* values are constant and thereby non-increasing with the distance.
C5_ScenarioIsConstant ==
    Scenario =>
        /\ Result[4] = 6 * FieldScale
        /\ \A i \in 1..4 : Result[i] = Result[1]
        /\ \A i, j \in 1..4 :
               distanceToSquared(VertexAt(i), ScenarioHotspot.pos)
                   <= distanceToSquared(VertexAt(j), ScenarioHotspot.pos)
               => Result[i] >= Result[j]

C5_Witness ==
    /\ Scenario
    /\ Result = << 6000, 6000, 6000, 6000 >>

\* C6: every call with the same arguments returns the same array, whatever the
\* calls made before it or between it and the first one left in _vtx.
C6_Deterministic ==
    \A i, j \in 1..Len(fnLog) : fnLog[i].result = fnLog[j].result

C6_Witness ==
    /\ Len(fnLog) = 2
    /\ fnLog[1].entry # fnLog[2].entry
    /\ VertexCount >= 1
    /\ fnLog[2].entry # VertexAt(VertexCount)
    /\ fnLog[2].result # <<>>

\* C7: for a hotspot (of radius > 0) the weight of a vertex is non-increasing
\* in its distance: of two vertices, the one not farther away has a weight that
\* is not smaller.
C7_WeightMonotone ==
    Returned =>
        \A k \in 1..Len(fnArgs.hotspots) :
            fnArgs.hotspots[k].radius > 0 =>
                \A i, j \in 1..VertexCount :
                    distanceToSquared(VertexAt(i), fnArgs.hotspots[k].pos)
                        <= distanceToSquared(VertexAt(j), fnArgs.hotspots[k].pos)
                    => HotspotWeight(VertexAt(i), fnArgs.hotspots[k]).w
                           >= HotspotWeight(VertexAt(j), fnArgs.hotspots[k]).w

C7_Witness ==
    /\ Returned
    /\ fnArgs.hotspots = << ScenarioHotspot >>
    /\ VertexCount = 2
    /\ VertexAt(1) = <<20, 20, 0>>
    /\ VertexAt(2) = <<20, 0, 0>>
    /\ HotspotWeight(VertexAt(2), ScenarioHotspot).w
           > HotspotWeight(VertexAt(1), ScenarioHotspot).w

\* ===========================================================================
\* Properties of the pointer queries (Spec)
\* ===========================================================================
\* the last event was a pointer move whose ray hit carries a face
HitFace == lastEvent.kind = "move" /\ lastEvent.face # NULL

\* the committed field of the mesh that was hit
HitField == geos[lastEvent.object].aVertexStiffness[1].array

\* field[a] + field[b] + field[c] for the face that was hit
HitSum ==
    HitField[lastEvent.face[1].a + 1] + HitField[lastEvent.face[1].b + 1]
        + HitField[lastEvent.face[1].c + 1]

\* C8, as claimed: the query reports the arithmetic mean of the three values.
C8_Original ==
    (HitFace /\ geos[lastEvent.object].aVertexStiffness # NULL) =>
        /\ hoveredStiffness # NULL
        /\ 3 * hoveredStiffness[1] = HitSum

\* C8, amended: the query reports the arithmetic mean of the three values
\* rounded to two decimals (half up): a whole number of hundredths h with
\* h - 0.005 <= mean < h + 0.005; for face (0,1,2) over [2.0, 4.0, 6.0] it
\* reports 4.0.
C8_RoundedMean ==
    (HitFace /\ geos[lastEvent.object].aVertexStiffness # NULL) =>
        /\ hoveredStiffness # NULL
        /\ hoveredStiffness[1] % 10 = 0
        /\ 3 * hoveredStiffness[1] - 15 <= HitSum
        /\ HitSum < 3 * hoveredStiffness[1] + 15
        /\ (HitField = << 2000, 4000, 6000 >> /\ lastEvent.face[1] = Face(0, 1, 2))
               => hoveredStiffness = Some(4000)

C8_Witness ==
    /\ HitFace
    /\ geos[lastEvent.object].aVertexStiffness # NULL
    /\ HitField = << 2000, 4000, 6000 >>
    /\ lastEvent.face[1] = Face(0, 1, 2)
    /\ hoveredStiffness = Some(4000)

\* the last event was one without an active hit
NoHit ==
    \/ lastEvent.kind = "move" /\ lastEvent.face = NULL
    \/ lastEvent.kind = "leave"
    \/ lastEvent.kind = "missed"

\* C9: an event without an active hit (a move without a face, a leave, a miss)
\* delivers null, and a null hover value becomes a number only by a pointer
\* move that carries a face.
C9_NullWithoutHit ==
    [][ /\ NoHit' => hoveredStiffness' = NULL
        /\ (hoveredStiffness = NULL /\ hoveredStiffness' # NULL) => HitFace'
      ]_vars

C9_Witness ==
    /\ mounted
    /\ prediction # NULL
    /\ lastEvent.kind = "move"
    /\ lastEvent.face = NULL
    /\ geos[lastEvent.object].aVertexStiffness # NULL
    /\ hoveredStiffness = NULL

\* the mesh is loaded (the component is mounted) and no prediction has arrived
NoPredictionYet == mounted /\ prediction = NULL

\* C10, as claimed: without a prediction a query on a hit face returns null.
C10_Original ==
    (NoPredictionYet /\ HitFace) => hoveredStiffness = NULL

\* C10, amended: without a prediction the field of the hit mesh is the one
\* computed from the default global stiffness 2.0, and a query on a hit face
\* returns a number, the two-decimal rounded face mean of that field.
C10_DefaultField ==
    (NoPredictionYet /\ HitFace) =>
        /\ geos[lastEvent.object].aVertexStiffness # NULL
        /\ HitField = computePerVertexStiffness(geos[lastEvent.object].position[1],
                                                ANATOMY_HOTSPOTS, 2, Origin).result
        /\ hoveredStiffness # NULL
        /\ 3 * hoveredStiffness[1] - 15 <= HitSum
        /\ HitSum < 3 * hoveredStiffness[1] + 15

C10_Witness ==
    /\ NoPredictionYet
    /\ HitFace
    /\ meshUrl = Some("tri")
    /\ HitField = << 1000, 2000, 3000 >>
    /\ hoveredStiffness = Some(2000)

\* ===========================================================================
\* Properties of the tooltip (Spec)
\* ===========================================================================
\* the last event was a point query or a pointer miss: it delivered a value
Delivered == lastEvent.kind \in {"move", "leave", "missed"}

\* the value that event delivered to the viewer
DeliveredValue ==
    IF lastEvent.kind = "move"
    THEN handlePointerMove([face |-> lastEvent.face, object |-> lastEvent.object],
                           geos)
    ELSE NULL

\* C11: the tooltip is rendered exactly when the last value delivered to the
\* viewer is not null: a new viewer renders none before its first delivery, a
\* delivery of a number renders it with that number, a delivery of null
\* renders none (and no tooltip of 0 kPa), and no other event changes what is
\* rendered.
C11_TooltipIffNonNull ==
    /\ (lastEvent = NoEvent => TooltipRender(hoveredStiffness) = NULL)
    /\ [][ /\ lastEvent'.kind = "unmount" => TooltipRender(hoveredStiffness') = NULL
           /\ (~Delivered' /\ lastEvent'.kind # "unmount") =>
                TooltipRender(hoveredStiffness') = TooltipRender(hoveredStiffness)
           /\ Delivered' =>
                /\ TooltipRender(hoveredStiffness') # NULL <=> DeliveredValue' # NULL
                /\ DeliveredValue' # NULL =>
                       /\ TooltipRender(hoveredStiffness')[1].stiffness
                              = DeliveredValue'[1]
                       /\ DeliveredValue'[1] >= MinKPa
         ]_vars

\* a pointer miss delivered null after a prediction and no tooltip is rendered
C11_Witness ==
    /\ mounted
    /\ lastEvent.kind = "missed"
    /\ prediction = Some(4)
    /\ clock > 0
    /\ TooltipRender(hoveredStiffness) = NULL

\* the last event was a point query: a pointer move or a pointer leave
Query == lastEvent.kind \in {"move", "leave"}

\* the attribute of mesh k that the queries read: its array and its dirty flag
Buffer(k) ==
    IF geos[k].aVertexStiffness = NULL THEN NULL
    ELSE Some([array |-> geos[k].aVertexStiffness[1].array,
               needsUpdate |-> geos[k].aVertexStiffness[1].needsUpdate])

\* C12: a pointer move or a pointer leave changes no mesh's per-vertex buffer,
\* no dirty flag, no uniform (uUseVertexStiffness and uStiffness among them)
\* and allocates nothing.
C12_QueryHasNoSideEffects ==
    [][ Query' =>
            /\ Len(geos') = Len(geos)
            /\ \A k \in 1..Len(geos) : Buffer(k)' = Buffer(k)
            /\ material'[1].uUseVertexStiffness = material[1].uUseVertexStiffness
            /\ material'[1].uStiffness = material[1].uStiffness
            /\ material' = material
            /\ allocs' = allocs
      ]_vars

\* a pointer leave over a scene of two meshes whose buffers are committed and
\* dirty
C12_Witness ==
    /\ lastEvent.kind = "leave"
    /\ prediction = Some(12)
    /\ meshUrl = Some("pair")
    /\ Buffer(2) # NULL
    /\ Buffer(2)[1].needsUpdate
    /\ material[1].uUseVertexStiffness = 1
    /\ material[1].uStiffness = 12

\* ===========================================================================
\* Properties of the update effect (SpecEffect, Spec)
\* ===========================================================================
\* this step runs the update effect of the mounted component
EffectRuns ==
    /\ mounted
    /\ \/ lastEvent'.kind = "toggle"
       \/ /\ lastEvent'.kind = "prediction"
          /\ stiffnessProp(prediction') # stiffnessProp(prediction)

\* the field the effect computes for mesh k has one element per vertex
FieldLength(k) == Len(geos[k].position[1]) \div 3

\* mesh k carries a buffer whose length is not the length of its field
Mismatched(k) ==
    /\ geos[k].position # NULL
    /\ geos[k].aVertexStiffness # NULL
    /\ Len(geos[k].aVertexStiffness[1].array) # FieldLength(k)

\* mesh k has vertex positions and carries no buffer
Unattached(k) == geos[k].position # NULL /\ geos[k].aVertexStiffness = NULL

AboutToMount == ~mounted /\ thrown = NULL

\* what the attach of this mount leaves, before the update effect runs
Attached ==
    IF meshUrl # NULL
    THEN LoadedAttach(geos, _vtx, allocs, stiffnessProp(prediction), heatmapEnabled)
    ELSE FallbackAttach(_vtx, allocs, stiffnessProp(prediction), heatmapEnabled)

\* the meshes of the attached scene that have vertex positions
WithPositions == { k \in 1..Len(Attached.geos) : Attached.geos[k].position # NULL }

AttachedArray(k) == Attached.geos[k].aVertexStiffness[1].array

\* C15, as claimed: immediately after attach every buffer has vertexCount
\* elements, all zero, and the flag is set.
C15_Original ==
    AboutToMount =>
        \A k \in WithPositions :
            /\ Attached.geos[k].aVertexStiffness # NULL
            /\ Len(AttachedArray(k)) = Len(Attached.geos[k].position[1]) \div 3
            /\ \A i \in 1..Len(AttachedArray(k)) : AttachedArray(k)[i] = 0
            /\ Attached.material.uUseVertexStiffness = 1

\* C15, amended: immediately after attach every mesh with positions has a
\* clean buffer of exactly vertexCount elements that already holds the field
\* for the current global stiffness (each element between 0.5 and 15 kPa, none
\* zero), and the flag is set.
C15_AttachedWithField ==
    AboutToMount =>
        \A k \in WithPositions :
            /\ Attached.geos[k].aVertexStiffness # NULL
            /\ Len(AttachedArray(k)) = Len(Attached.geos[k].position[1]) \div 3
            /\ AttachedArray(k) =
                   computePerVertexStiffness(Attached.geos[k].position[1],
                                             ANATOMY_HOTSPOTS,
                                             stiffnessProp(prediction), Origin).result
            /\ \A i \in 1..Len(AttachedArray(k)) :
                   AttachedArray(k)[i] >= MinKPa /\ AttachedArray(k)[i] <= MaxKPa
            /\ ~Attached.geos[k].aVertexStiffness[1].needsUpdate
            /\ Attached.material.uUseVertexStiffness = 1

\* the attach of the scene of one triangle under a prediction of 4 kPa
C15_Witness ==
    /\ AboutToMount
    /\ meshUrl = Some("tri")
    /\ prediction = Some(4)
    /\ WithPositions = { 1 }
    /\ AttachedArray(1) = << 2000, 4000, 6000 >>
    /\ Attached.material.uUseVertexStiffness = 1
    /\ Attached.allocs = 1

\* ===========================================================================
\* Properties of the life of the buffers (Spec)
\* ===========================================================================
\* the mesh component has been mounted and has been unmounted since
Detached == ~mounted /\ allocs > 0

\* no mesh of the scene carries a per-vertex buffer
NoBuffer == \A k \in 1..Len(geos) : geos[k].aVertexStiffness = NULL

\* the flag is clear: no material is in use, or its uUseVertexStiffness is 0
FlagClear == material = NULL \/ material[1].uUseVertexStiffness = 0

\* C16, as claimed: once the component is gone the buffers are released and the
\* flag is cleared, and whenever no mesh has a buffer the flag is clear.
C16_Original ==
    /\ Detached => (NoBuffer /\ FlagClear)
    /\ NoBuffer => FlagClear

\* the identity of the buffer mesh k carries, NULL if it carries none
BufferId(k) ==
    IF geos[k].aVertexStiffness = NULL THEN NULL
    ELSE Some(geos[k].aVertexStiffness[1].id)

\* the meshes of the scene whose geometry has vertex positions
Positioned == { k \in 1..Len(geos) : geos[k].position # NULL }

CurrentField(k) ==
    computePerVertexStiffness(geos[k].position[1], ANATOMY_HOTSPOTS,
                              stiffnessProp(prediction), Origin).result

HitMean == HitSum \div 3

\* the tooltip the viewer renders
Tooltip == TooltipRender(hoveredStiffness)[1]

\* stiffness values around the tier boundaries and at the ends of the range
TierInputs ==
    { 0, MinKPa, MaxKPa, TScale }
        \cup { 2 * FieldScale + d : d \in -10..10 }
        \cup { 5 * FieldScale + d : d \in -10..10 }

\* C19, as claimed: the tier the tooltip shows for a face is the tier of the
\* ramp for the stiffness of that face.
C19_Original ==
    (HitFace /\ hoveredStiffness # NULL) => Tooltip.label = heatmapTier(HitMean)

\* C19, amended: the tooltip and the ramp put every value in the same tier
\* (below 2.0, from 2.0 to below 5.0, from 5.0), and the tier the tooltip shows
\* is the ramp's tier of the value it is given, the face mean rounded to two
\* decimals: it is the ramp's tier of the face mean itself unless that mean is
\* less than 0.005 kPa below 2.0 or 5.0, where the tooltip shows the tier above.
C19_TierOfRoundedMean ==
    /\ \A v \in TierInputs : StiffnessTooltip(v).label = heatmapTier(v)
    /\ (HitFace /\ hoveredStiffness # NULL) =>
           /\ Tooltip.label = heatmapTier(hoveredStiffness[1])
           /\ Tooltip.label # heatmapTier(HitMean) <=>
                  \/ 3 * 2 * FieldScale - 15 <= HitSum /\ HitSum < 3 * 2 * FieldScale
                  \/ 3 * 5 * FieldScale - 15 <= HitSum /\ HitSum < 3 * 5 * FieldScale
           /\ Tooltip.label # heatmapTier(HitMean) =>
                  \/ Tooltip.label = "MODERATE" /\ heatmapTier(HitMean) = "HEALTHY"
                  \/ Tooltip.label = "LESION" /\ heatmapTier(HitMean) = "MODERATE"

\* the face of the edge triangle at the default 2 kPa: its mean 1.997 kPa is
\* green on the ramp and MODERATE, as 2.0 kPa, in the tooltip
C19_Witness ==
    /\ HitFace
    /\ meshUrl = Some("edge")
    /\ prediction = NULL
    /\ HitField = << 1996, 1998, 1998 >>
    /\ hoveredStiffness = Some(2000)
    /\ Tooltip.label = "MODERATE"
    /\ heatmapTier(HitMean) = "HEALTHY"
    /\ heatmapColor(HitMean) = green

\* (x - edge0) / (edge1 - edge0) in units of 1/FieldScale
LinearFactor(edge0, edge1, x) == Quotient((x - edge0) * FieldScale, edge1 - edge0)

\* f is 3u^2 - 2u^3 rounded to the nearest 1/FieldScale
IsEased(f, u) ==
    LET exact == u * u * (3 * FieldScale - 2 * u)
        got == f * FieldScale * FieldScale
    IN  /\ 2 * (got - exact) <= FieldScale * FieldScale
        /\ 2 * (exact - got) <= FieldScale * FieldScale

\* C20, as claimed: below 2.0 pure green, from 2.0 to 5.0 the linear blend of
\* green and yellow, above 5.0 a blend of yellow and red.
C20_Original ==
    Returned =>
        LET x == fnArgs.stiffness
        IN  /\ x < 2 * FieldScale => Result = green
            /\ (2 * FieldScale <= x /\ x <= 5 * FieldScale) =>
                   Result = mix(green, yellow,
                                LinearFactor(2 * FieldScale, 5 * FieldScale, x))
            /\ x > 5 * FieldScale =>
                   \E f \in 0..FieldScale : Result = mix(yellow, red, f)

\* C20, amended: below 2.0 pure green; from 2.0 to 5.0 a blend of green and
\* yellow whose factor is not linear but the smoothstep 3u^2 - 2u^3 of
\* u = (stiffness - 2) / 3, below u in the first half and above it in the
\* second, reaching pure yellow at 5.0; above 5.0 a blend of yellow and red
\* with the smoothstep of u = (stiffness - 5) / 5, pure red from 10.0 on.
C20_EasedRamp ==
    Returned =>
        LET x == fnArgs.stiffness
        IN  /\ x < 2 * FieldScale => Result = green
            /\ (2 * FieldScale <= x /\ x <= 5 * FieldScale) =>
                   LET u == LinearFactor(2 * FieldScale, 5 * FieldScale, x)
                       f == Result[1]
                   IN  /\ Result = mix(green, yellow, f)
                       /\ IsEased(f, u)
                       /\ (0 < u /\ 2 * u < FieldScale) => f < u
                       /\ (2 * u > FieldScale /\ u < FieldScale) => f > u
                       /\ u = 0 => Result = green
                       /\ u = FieldScale => Result = yellow
            /\ x > 5 * FieldScale =>
                   LET u == LinearFactor(5 * FieldScale, TScale, Min(x, TScale))
                   IN  /\ \E f \in 0..FieldScale :
                              Result = mix(yellow, red, f) /\ IsEased(f, u)
                       /\ x >= TScale => Result = red

\* the colour of 2.75 kPa: a quarter of the way, the factor is 0.156, not 0.25
C20_Witness ==
    /\ Returned
    /\ fnArgs.stiffness = 2750
    /\ Result = mix(green, yellow, 156)
    /\ Result # mix(green, yellow, 250)
    /\ Result = << 156, 969, 422 >>

\* ===========================================================================
\* The two variants of BackendMesh (Spec)
\* ===========================================================================
\* what the effects of the mounted component read and write, as they find it
EffectState ==
    [geos |-> geos, material |-> material[1], vtx |-> _vtx, allocs |-> allocs,
     threw |-> NULL]

\* the capsule as a GLB scene would hold it when LoadedMesh mounts: as loaded,
\* or with the buffer an earlier mount left on it
CapsuleScenes ==
    { << CapsuleGeometry >>,
      << [CapsuleGeometry EXCEPT !.aVertexStiffness =
              Some(BufferAttribute([i \in 1..4 |-> FieldScale], 0))] >> }

\* C21: the capsule variant does at every step what the GLB variant does on a
\* scene of the same vertex positions: its mount, each of its updates and each
\* of its pointer queries leave the buffers, their dirty flags, every uniform
\* (the use-per-vertex flag among them) and the hover value that LoadedMesh's
\* effects and handler leave from the same state.
C21_VariantsAgree ==
    [][ meshUrl = NULL =>
            /\ lastEvent'.kind = "mount" =>
                   \A gs \in CapsuleScenes :
                       LET L == LoadedMount(gs, _vtx, allocs, stiffnessProp(prediction),
                                            heatmapEnabled)
                       IN  /\ geos' = L.geos
                           /\ material' = Some(L.material)
                           /\ allocs' = L.allocs
                           /\ thrown' = L.threw
            /\ EffectRuns =>
                   LET L == LoadedUpdateEffect(EffectState, stiffnessProp(prediction'),
                                               heatmapEnabled')
                   IN  /\ geos' = L.geos
                       /\ material' = Some(L.material)
                       /\ allocs' = L.allocs
                       /\ thrown' = L.threw
            /\ lastEvent'.kind = "move" =>
                   hoveredStiffness' =
                       handlePointerMove([face |-> lastEvent'.face,
                                          object |-> lastEvent'.object], geos)
            /\ lastEvent'.kind = "leave" => hoveredStiffness' = NULL
      ]_vars

\* the capsule after a prediction of 4 kPa and a pointer move over a face
C21_Witness ==
    /\ meshUrl = NULL
    /\ mounted
    /\ prediction = Some(4)
    /\ HitFace
    /\ hoveredStiffness # NULL
    /\ geos[1].aVertexStiffness[1].needsUpdate
    /\ material[1].uUseVertexStiffness = 1
    /\ material[1].uStiffness = 4

\* ===========================================================================
\* The lesion list of a prediction (SpecLesions)
\* ===========================================================================
\* the buffers, uniforms and exception a prediction leaves when its lesion
\* list is ls
OutcomeWithLesions(ls) ==
    IF EffectRuns
    THEN LET props == BackendMeshProps(stiffnessProp(prediction'), ls, heatmapEnabled)
             st == IF meshUrl # NULL
                   THEN LoadedUpdateEffect(EffectState, props.stiffness,
                                           props.heatmapEnabled)
                   ELSE FallbackUpdateEffect(EffectState, props.stiffness,
                                             props.heatmapEnabled)
         IN  [geos |-> st.geos, material |-> Some(st.material), threw |-> st.threw]
    ELSE [geos |-> geos, material |-> material, threw |-> thrown]

\* C22: the state a prediction leaves is the state it would have left with any
\* other lesion list, or none: the same buffers, the same uniforms, the same
\* exception; and a pointer move delivers what the buffers hold, whatever
\* lesions the last prediction carried.
C22_LesionsDoNotReachField ==
    [][ /\ lastEvent'.kind = "prediction" =>
               \A ls \in PredictedLesions :
                   LET o == OutcomeWithLesions(ls)
                   IN  /\ geos' = o.geos
                       /\ material' = o.material
                       /\ thrown' = o.threw
        /\ (lastEvent.kind = "prediction" /\ lastEvent'.kind = "move") =>
               hoveredStiffness' =
                   IF meshUrl # NULL
                   THEN handlePointerMove([face |-> lastEvent'.face,
                                           object |-> lastEvent'.object], geos)
                   ELSE FallbackHandlePointerMove([face |-> lastEvent'.face,
                                                   object |-> lastEvent'.object], geos[1])
      ]_vars

\* a mounted mesh whose field was recomputed for a prediction of 4 kPa that
\* listed a lesion of 9 kPa
C22_Witness ==
    /\ mounted
    /\ lastEvent.kind = "prediction"
    /\ lastEvent.lesions # NULL
    /\ prediction = Some(4)
    /\ material[1].uStiffness = 4
    /\ \E k \in 1..Len(geos) :
           /\ geos[k].aVertexStiffness # NULL
           /\ geos[k].aVertexStiffness[1].needsUpdate

\* ===========================================================================
\* A failed update (SpecEffect)
\* ===========================================================================
\* the buffer of mesh k is too short for its field: Float32Array.set throws
TooShort(k) ==
    /\ Mismatched(k)
    /\ Len(geos[k].aVertexStiffness[1].array) < FieldLength(k)

AppliedStiffnesses == { DefaultStiffness } \cup PredictedStiffnesses

\* the field of mesh k for global stiffness g
FieldFor(k, g) ==
    computePerVertexStiffness(geos[k].position[1], ANATOMY_HOTSPOTS, g, Origin).result

\* C24: with frames and pointer moves handled at any point between the render
\* of a prediction and the run of its update effect, every state a frame or a
\* query can see has, on each mesh with positions, the complete field of one
\* global stiffness in the buffer, and a hover value delivered by a move is the
\* rounded face mean of one such field.
C24_BufferIsOneField ==
    /\ \A k \in Positioned :
           geos[k].aVertexStiffness # NULL =>
               \E g \in AppliedStiffnesses :
                   geos[k].aVertexStiffness[1].array = FieldFor(k, g)
    /\ (lastEvent.kind = "move" /\ hoveredStiffness # NULL) =>
           \E g \in AppliedStiffnesses :
               LET field == FieldFor(lastEvent.object, g)
                   f == lastEvent.face[1]
               IN  hoveredStiffness =
                       Some(parseFloat2(toFixed2(field[f.a + 1] + field[f.b + 1]
                                                 + field[f.c + 1])))

\* a pointer move between the render of a prediction of 12 kPa and its effect:
\* the buffer still holds the field of the 4 kPa applied before, and the query
\* delivered a value
C24_Witness ==
    /\ Pending
    /\ prediction = Some(12)
    /\ material[1].uStiffness = 4
    /\ lastEvent.kind = "move"
    /\ hoveredStiffness # NULL
    /\ \A k \in Positioned : geos[k].aVertexStiffness[1].array = FieldFor(k, 4)

\* ===========================================================================
\* Recomputation (SpecPassive)
\* ===========================================================================
\* the update effect run once more on the state a step leaves, for the same
\* props
RunAgain ==
    LET st1 == [geos |-> geos', material |-> material'[1], vtx |-> _vtx',
                allocs |-> allocs', threw |-> NULL]
    IN  IF meshUrl # NULL
        THEN LoadedUpdateEffect(st1, stiffnessProp(prediction'), heatmapEnabled')
        ELSE FallbackUpdateEffect(st1, stiffnessProp(prediction'), heatmapEnabled')

\* the contents of the buffers of a scene, mesh by mesh (NULL: no buffer)
Contents(gs) ==
    [k \in 1..Len(gs) |->
        IF gs[k].aVertexStiffness = NULL THEN NULL
        ELSE Some(gs[k].aVertexStiffness[1].array)]

\* C25: whatever the buffers held before, a run of the update effect for
\* global stiffness g leaves in each buffer the field of g on that mesh's
\* positions, and a second run for the same g leaves the same contents, the
\* same uniforms and creates no buffer.
C25_IdempotentNoDelta ==
    [][ (lastEvent'.kind = "effect" /\ thrown' = NULL) =>
            /\ \A k \in Positioned :
                   Contents(geos')[k] = Some(FieldFor(k, stiffnessProp(prediction')))
            /\ Contents(RunAgain.geos) = Contents(geos')
            /\ RunAgain.material = material'[1]
            /\ RunAgain.allocs = allocs'
            /\ RunAgain.threw = NULL
      ]_vars

\* the update effect has just run for a prediction of 12 kPa on the quad: its
\* buffer, first filled for the default 2 kPa, holds the field of 12 kPa
C25_Witness ==
    /\ mounted
    /\ meshUrl = Some("quad")
    /\ lastEvent.kind = "effect"
    /\ prediction = Some(12)
    /\ Contents(geos)[1] = Some(FieldFor(1, 12))
    /\ FieldFor(1, 12) # FieldFor(1, 4)
    /\ geos[1].aVertexStiffness[1].needsUpdate

\* ===========================================================================
\* Queries after a recomputation (SpecPassive)
\* ===========================================================================
\* the rounded mean over face f of the field of mesh k for global stiffness g
FaceMeanFor(k, f, g) ==
    LET field == FieldFor(k, g)
    IN  parseFloat2(toFixed2(field[f.a + 1] + field[f.b + 1] + field[f.c + 1]))

\* C26: a pointer move over a face delivers the rounded face mean of the field
\* written by the latest run of an effect, the one for the stiffness the
\* uStiffness uniform holds: not of a field written before it, and not of the
\* field of a prediction that is rendered but whose effect has not run.
C26_QueryReadsLatestField ==
    [][ (lastEvent'.kind = "move" /\ lastEvent'.face # NULL) =>
            hoveredStiffness' =
                Some(FaceMeanFor(lastEvent'.object, lastEvent'.face[1],
                                 material[1].uStiffness))
      ]_vars

\* a pointer move right after the effect ran for a prediction of 12 kPa: the
\* value delivered is the face mean of the field of 12 kPa, which is not that
\* of the field the buffer was created with
C26_Witness ==
    /\ lastEvent.kind = "move"
    /\ lastEvent.face # NULL
    /\ prediction = Some(12)
    /\ material[1].uStiffness = 12
    /\ hoveredStiffness =
           Some(FaceMeanFor(lastEvent.object, lastEvent.face[1], 12))
    /\ FaceMeanFor(lastEvent.object, lastEvent.face[1], 12)
           # FaceMeanFor(lastEvent.object, lastEvent.face[1], DefaultStiffness)

\* ===========================================================================
\* The use-per-vertex flag and the buffers (Spec)
\* ===========================================================================
\* the meshes drawn with the hologram material: the attach effect assigns it
\* to every mesh of the scene, with or without positions
RenderedWithMaterial == IF material # NULL THEN 1..Len(geos) ELSE {}

\* the number of vertices of mesh k
VertexCountOf(k) ==
    IF geos[k].position = NULL THEN 0 ELSE Len(geos[k].position[1]) \div 3

FlagSet == material # NULL /\ material[1].uUseVertexStiffness = 1

\* C27, as claimed: while the flag is set, every mesh drawn with the material
\* carries a buffer with one element per vertex.
C27_Original ==
    FlagSet =>
        \A k \in RenderedWithMaterial :
            /\ geos[k].aVertexStiffness # NULL
            /\ Len(geos[k].aVertexStiffness[1].array) = VertexCountOf(k)

\* C27, amended: while the flag is set, every mesh drawn with the material
\* that has a position attribute carries a buffer with one element per vertex;
\* a mesh without positions is drawn with the material and carries no buffer.
C27_PositionedMeshesHaveBuffers ==
    FlagSet =>
        \A k \in RenderedWithMaterial :
            IF geos[k].position # NULL
            THEN /\ geos[k].aVertexStiffness # NULL
                 /\ Len(geos[k].aVertexStiffness[1].array) = VertexCountOf(k)
            ELSE geos[k].aVertexStiffness = NULL

\* the scene with a mesh without positions, mounted: the flag is set for the
\* triangle's buffer, and the other mesh has the material and no buffer
C27_Witness ==
    /\ mounted
    /\ FlagSet
    /\ meshUrl = Some("bare")
    /\ geos[1].position = NULL
    /\ geos[1].aVertexStiffness = NULL
    /\ geos[2].aVertexStiffness # NULL
    /\ Len(geos[2].aVertexStiffness[1].array) = VertexCountOf(2)

\* ===========================================================================
\* The tooltip and the field (Spec)
\* ===========================================================================
\* the rounded face mean, at the face hit by the move handled last, of the
\* buffer as the step leaves it
MeanAtLastHitAfter ==
    LET a == geos'[lastEvent.object].aVertexStiffness[1].array
        f == lastEvent.face[1]
    IN  parseFloat2(toFixed2(a[f.a + 1] + a[f.b + 1] + a[f.c + 1]))

\* C28, as claimed: after a step that follows a pointer move over a face and
\* leaves the tooltip visible, the tooltip shows the rounded face mean, at
\* that face, of the field the buffer now holds.
C28_Original ==
    [][ ( /\ lastEvent.kind = "move"
          /\ lastEvent.face # NULL
          /\ lastEvent'.kind # "move"
          /\ mounted'
          /\ TooltipRender(hoveredStiffness') # NULL ) =>
            TooltipRender(hoveredStiffness')[1].stiffness = MeanAtLastHitAfter
      ]_vars

\* ===========================================================================
\* The range of the hover values (Spec)
\* ===========================================================================
\* C29: a value delivered by a pointer move over a face of a mesh, after any
\* sequence of mounts, predictions and toggles, is neither below 0.5 kPa nor
\* above 15.0 kPa.
C29_HoverInRange ==
    (lastEvent.kind = "move" /\ hoveredStiffness # NULL) =>
        /\ hoveredStiffness[1] >= MinKPa
        /\ hoveredStiffness[1] <= MaxKPa

\* a pointer move over a face after a prediction of 0 kPa: every vertex is at
\* the lower clamp and the value delivered is 0.5 kPa
C29_Witness ==
    /\ lastEvent.kind = "move"
    /\ lastEvent.face # NULL
    /\ prediction = Some(0)
    /\ hoveredStiffness = Some(MinKPa)

\* ===========================================================================
\* The heatmap toggle (Spec)
\* ===========================================================================
\* C30: a toggle of the heatmap on a mounted viewer flips uHeatmapEnabled and
\* leaves the contents of every buffer, the set of meshes that carry one, the
\* use-per-vertex flag, uStiffness and uTime as they were.
C30_ToggleKeepsField ==
    [][ (lastEvent'.kind = "toggle" /\ mounted) =>
            /\ material'[1].uHeatmapEnabled = 1 - material[1].uHeatmapEnabled
            /\ Contents(geos') = Contents(geos)
            /\ material'[1].uUseVertexStiffness = material[1].uUseVertexStiffness
            /\ material'[1].uStiffness = material[1].uStiffness
            /\ material'[1].uTime = material[1].uTime
            /\ allocs' = allocs
            /\ thrown' = NULL
      ]_vars

\* the heatmap switched off on a mounted viewer after a prediction of 12 kPa:
\* the buffers were rewritten (dirty) and hold the field of 12 kPa as before
C30_Witness ==
    /\ mounted
    /\ lastEvent.kind = "toggle"
    /\ ~heatmapEnabled
    /\ material[1].uHeatmapEnabled = 0
    /\ prediction = Some(12)
    /\ material[1].uStiffness = 12
    /\ \A k \in Positioned :
           /\ geos[k].aVertexStiffness[1].needsUpdate
           /\ geos[k].aVertexStiffness[1].array = FieldFor(k, 12)

====
